---- MODULE Spec2Model ----
(***************************************************************************)
(* A model of tess-locator's two catalogs.                                 *)
(*                                                                         *)
(*   catalog.py      the per-sector FFI listing files and their builders   *)
(*   wcs_catalog.py  the single WCS table, its builder, and the memoized   *)
(*                   readers load_wcs_catalog, get_wcs, get_sector_dates   *)
(*                   and time_to_sector                                    *)
(*                                                                         *)
(* A Python str is a sequence of character codes compared                  *)
(* lexicographically, an lru_cache is a recency-ordered sequence of        *)
(* entries, a DataFrame is a sequence of rows.                             *)
(***************************************************************************)
EXTENDS Integers, Sequences, FiniteSets, TLC

VARIABLES
    files,         \* path -> contents of the FFI listing files on disk
    mastCache,     \* lru_cache of _mast_ffi_query
    wcsFile,       \* the persisted WCS table (tess-wcs-catalog.parquet)
    catalogCache,  \* lru_cache of load_wcs_catalog
    wcsCache,      \* lru_cache(maxsize=4096) of get_wcs
    datesCache,    \* lru_cache of get_sector_dates
    timeCache,     \* lru_cache of time_to_sector
    nextObj,       \* number of WCS objects constructed by this process
    handed,        \* <<key, object>>: what get_wcs returned in this process
    ret            \* the last call: its operation, arguments and up

vars == <<files, mastCache, wcsFile, catalogCache, wcsCache, datesCache,
          timeCache, nextObj, handed, ret>>

listingVars == <<files, mastCache>>
readerVars == <<catalogCache, wcsCache, datesCache, timeCache, nextObj, handed>>

---------------------------------------------------------------------------
(* Bounds of the model *)

\* number of known sectors (the package constant SECTORS, scaled down)
SECTORS == 2
\* rows of a catalog drawn for the index computations
MaxRows == 2
\* largest second of the drawn timestamps
MaxSecond == 1

---------------------------------------------------------------------------
(* Program constants *)

CAMERAS == <<1, 2, 3, 4>>
CCDS == <<1, 2, 3, 4>>
\* functools.lru_cache without arguments
DefaultMaxSize == 128
\* lru_cache(maxsize=4096) of get_wcs
WcsMaxSize == 4096

---------------------------------------------------------------------------
(* functools.lru_cache: entries are kept oldest first; a hit moves the     *)
(* entry to the most recent end, a miss appends the computed value and     *)
(* drops the least recently used entry when the cache is over its size.    *)
(* A call that raises stores nothing.                                      *)

LruHas(cache, key) == \E i \in 1..Len(cache) : cache[i].key = key

LruIndex(cache, key) == CHOOSE i \in 1..Len(cache) : cache[i].key = key

LruGet(cache, key) == cache[LruIndex(cache, key)].val

LruTouch(cache, key) ==
    LET i == LruIndex(cache, key)
    IN  SubSeq(cache, 1, i - 1) \o SubSeq(cache, i + 1, Len(cache)) \o <<cache[i]>>

\* a cache that stores nothing
LruPutNothing(cache, key, val, maxsize) == cache

LruPut(cache, key, val, maxsize) ==
    LET added == Append(cache, [key |-> key, val |-> val])
    IN  IF Len(added) > maxsize THEN Tail(added) ELSE added

---------------------------------------------------------------------------
(* catalog.py: the FFI listing files *)

NoPath == <<"none", 0>>
UserPath == <<"user", 0>>
NoFile == <<"absent", 0>>
NoArg == <<>>

\* _ffi_catalog_path
FfiCatalogPath(sector) == <<"ffi", sector>>

Paths == {FfiCatalogPath(s) : s \in 1..SECTORS} \cup {UserPath}

\* _query_ffi_catalog(sector): the rows made of the archive's answer for the
\* sector, an opaque value here
QueryFfiCatalog(sector) == <<"listing", sector>>

\* _mast_ffi_query under its lru_cache; `up` tells whether the archive answers:
\* [raised, tbl, cache, queried]
MastFfiQuery(cache, sector, up) ==
    IF LruHas(cache, sector)
    THEN [raised |-> FALSE, tbl |-> LruGet(cache, sector),
          cache |-> LruTouch(cache, sector), queried |-> {}]
    ELSE IF ~up
    THEN [raised |-> TRUE, tbl |-> NoFile, cache |-> cache, queried |-> {sector}]
    ELSE [raised |-> FALSE, tbl |-> QueryFfiCatalog(sector),
          cache |-> LruPut(cache, sector, QueryFfiCatalog(sector), DefaultMaxSize),
          queried |-> {sector}]

\* fetch_ffi_catalog without the test for an existing file
FetchFfiCatalogStepOverwrite(fs, cache, sector, patharg, up) ==
    LET path == IF patharg = NoPath THEN FfiCatalogPath(sector) ELSE patharg
        q == MastFfiQuery(cache, sector, up)
    IN  IF q.raised
        THEN [files |-> fs, cache |-> q.cache, out |-> "UpstreamError",
              queried |-> q.queried, wrote |-> {}]
        ELSE [files |-> [fs EXCEPT ![path] = q.tbl], cache |-> q.cache,
              out |-> "value", queried |-> q.queried, wrote |-> {path}]

\* fetch_ffi_catalog on the store (fs, cache):
\* [files, cache, out, queried, wrote]
FetchFfiCatalogStep(fs, cache, sector, patharg, up) ==
    LET path == IF patharg = NoPath THEN FfiCatalogPath(sector) ELSE patharg
    IN  IF fs[path] # NoFile
        THEN [files |-> fs, cache |-> cache, out |-> "None",
              queried |-> {}, wrote |-> {}]
        ELSE LET q == MastFfiQuery(cache, sector, up)
             IN  IF q.raised
                 THEN [files |-> fs, cache |-> q.cache, out |-> "UpstreamError",
                       queried |-> q.queried, wrote |-> {}]
                 ELSE [files |-> [fs EXCEPT ![path] = q.tbl], cache |-> q.cache,
                       out |-> "value", queried |-> q.queried, wrote |-> {path}]

\* fetch_ffi_catalog(sector, path=None)
FetchFfiCatalog(sector, patharg, up) ==
    LET r == FetchFfiCatalogStep(files, mastCache, sector, patharg, up)
    IN  /\ files' = r.files
        /\ mastCache' = r.cache
        /\ ret' = [op |-> "fetch_ffi_catalog", arg |-> <<sector, patharg>>,
                   out |-> r.out, queried |-> r.queried, wrote |-> r.wrote,
                   attempted |-> {sector}]
        /\ UNCHANGED <<wcsFile, readerVars>>

\* the loop of fetch_all_catalogs from `sector` on; an exception of
\* fetch_ffi_catalog leaves the loop
RECURSIVE FetchLoop(_, _, _)
FetchLoop(sector, st, ups) ==
    IF sector > SECTORS
    THEN st
    ELSE LET r == FetchFfiCatalogStep(st.files, st.cache, sector, NoPath,
                                      ups[sector])
             st2 == [files |-> r.files, cache |-> r.cache,
                     out |-> IF r.out = "UpstreamError" THEN r.out ELSE "None",
                     queried |-> st.queried \cup r.queried,
                     wrote |-> st.wrote \cup r.wrote,
                     attempted |-> st.attempted \cup {sector}]
         IN  IF r.out = "UpstreamError"
             THEN st2
             ELSE FetchLoop(sector + 1, st2, ups)

\* fetch_all_catalogs()
FetchAllCatalogs(ups) ==
    LET st0 == [files |-> files, cache |-> mastCache, out |-> "None",
                queried |-> {}, wrote |-> {}, attempted |-> {}]
        st == FetchLoop(1, st0, ups)
    IN  /\ files' = st.files
        /\ mastCache' = st.cache
        /\ ret' = [op |-> "fetch_all_catalogs", arg |-> NoArg, out |-> st.out,
                   queried |-> st.queried, wrote |-> st.wrote,
                   attempted |-> st.attempted]
        /\ UNCHANGED <<wcsFile, readerVars>>

---------------------------------------------------------------------------
(* Python str: a sequence of character codes, ordered lexicographically;   *)
(* a proper prefix sorts before the longer string.                         *)

Digit(d) == 48 + d
Dot == 46

StrLt(a, b) ==
    \E i \in 1..(Len(b)) :
        /\ \A j \in 1..(i - 1) : j <= Len(a) /\ a[j] = b[j]
        /\ \/ i > Len(a)
           \/ i <= Len(a) /\ a[i] < b[i]

StrLe(a, b) == a = b \/ StrLt(a, b)

\* an ISO timestamp cut to seconds (str.slice(stop=19)): fixed width, no
\* fraction; the two digits of the second stand for the 19 characters
IsoSeconds(n) == <<Digit(n \div 10), Digit(n % 10)>>

\* astropy Time.iso: the timestamp with its fraction, ".fff"
TimeIso(t) ==
    IsoSeconds(t.sec) \o
    <<Dot, Digit(t.ms \div 100), Digit((t.ms \div 10) % 10), Digit(t.ms % 10)>>

---------------------------------------------------------------------------
(* wcs_catalog.py: building the WCS table *)

\* imagelist.list_images(sector, camera, ccd): the images of one ccd in time
\* order; the cameras of a sector do not start and stop at the same second
ListImages(sector, camera, ccd) ==
    LET offs == IF camera = ccd THEN 0 ELSE 1
    IN  [i \in 1..3 |->
            [begin |-> IsoSeconds(10 * sector + i + offs),
             end |-> IsoSeconds(10 * sector + i + 1 + offs),
             header |-> <<sector, camera, ccd, i>>]]

\* image.download_wcs().to_header_string(relax=True)
DownloadWcs(image) == image.header

\* one pass of the loop body: the row of one (sector, camera, ccd)
SummaryRow(sector, camera, ccd) ==
    LET images == ListImages(sector, camera, ccd)
    IN  [sector |-> sector, camera |-> camera, ccd |-> ccd,
         begin |-> images[1].begin,
         end |-> images[Len(images)].end,
         wcs |-> DownloadWcs(images[(Len(images) \div 2) + 1])]

\* range(1, SECTORS + 1)
DefaultSectors == [i \in 1..SECTORS |-> i]

\* a product whose middle factor runs fastest
ProductCameraFastest(sectors) ==
    [k \in 1..(Len(sectors) * Len(CAMERAS) * Len(CCDS)) |->
        <<sectors[((k - 1) \div (Len(CAMERAS) * Len(CCDS))) + 1],
          CAMERAS[((k - 1) % Len(CAMERAS)) + 1],
          CCDS[(((k - 1) \div Len(CAMERAS)) % Len(CCDS)) + 1]>>]

\* itertools.product(sectors, [1, 2, 3, 4], [1, 2, 3, 4]): the rightmost
\* factor runs fastest
Product(sectors) ==
    [k \in 1..(Len(sectors) * Len(CAMERAS) * Len(CCDS)) |->
        <<sectors[((k - 1) \div (Len(CAMERAS) * Len(CCDS))) + 1],
          CAMERAS[(((k - 1) \div Len(CCDS)) % Len(CAMERAS)) + 1],
          CCDS[((k - 1) % Len(CCDS)) + 1]>>]

\* the for loop of update_wcs_catalog over the iterator; `down` are the
\* triples whose listing or header download fails, and the first of them
\* ends the loop with the rows appended so far
Summarize(iterator, down) ==
    LET failing == {k \in 1..Len(iterator) : iterator[k] \in down}
        stop == IF failing = {}
                THEN Len(iterator) + 1
                ELSE CHOOSE k \in failing : \A j \in failing : k <= j
    IN  [raised |-> failing # {},
         summary |-> [k \in 1..(stop - 1) |->
                         SummaryRow(iterator[k][1], iterator[k][2], iterator[k][3])]]

\* a write that adds the new rows to the rows of the file
WriteCatalogMerging(old, run) ==
    IF run.raised THEN old ELSE [exists |-> TRUE, rows |-> old.rows \o run.summary]

\* a write that happens although the loop was left by an exception
WriteCatalogPartial(old, run) == [exists |-> TRUE, rows |-> run.summary]

\* df.to_parquet(WCS_CATALOG) at the end of update_wcs_catalog: what the
\* file holds after a run that ended as `run`
WriteCatalog(old, run) ==
    IF run.raised THEN old ELSE [exists |-> TRUE, rows |-> run.summary]

\* the triples the archive may fail on during a build
DownSets == {{}, {<<1, 1, 1>>}, {<<1, 2, 3>>}, {<<SECTORS, 4, 4>>}}

\* the sector lists a caller passes: none, one, several in either order, one
\* sector twice
SectorLists == {<<>>, <<1>>, <<SECTORS>>, <<1, SECTORS>>, <<SECTORS, 1>>, <<1, 1>>}

\* the loop's outcome for every input of the model
Runs ==
    {[sectors |-> sectors, down |-> down,
      run |-> Summarize(Product(sectors), down)] :
        sectors \in SectorLists \cup {DefaultSectors}, down \in DownSets}

RunOf(sectors, down) ==
    (CHOOSE r \in Runs : r.sectors = sectors /\ r.down = down).run

\* update_wcs_catalog(sectors=None); given = FALSE is the call without sectors
UpdateWcsCatalog(given, sectorsarg, down) ==
    LET sectors == IF given THEN sectorsarg ELSE DefaultSectors
        run == RunOf(sectors, down)
    IN  /\ wcsFile' = WriteCatalog(wcsFile, run)
        /\ ret' = [op |-> "update_wcs_catalog", arg |-> sectors,
                   out |-> IF run.raised THEN "UpstreamError" ELSE "None",
                   val |-> run.summary, down |-> down]
        /\ UNCHANGED <<listingVars, readerVars>>

\* a new process: every lru_cache starts empty, the files stay
Restart ==
    /\ mastCache' = <<>>
    /\ catalogCache' = <<>>
    /\ wcsCache' = <<>>
    /\ datesCache' = <<>>
    /\ timeCache' = <<>>
    /\ nextObj' = 0
    /\ handed' = {}
    /\ ret' = [op |-> "start", arg |-> NoArg, out |-> "None"]
    /\ UNCHANGED <<files, wcsFile>>

---------------------------------------------------------------------------
(* wcs_catalog.py: the memoized readers.  Each operator is the decorated   *)
(* function: it answers from its lru_cache on a hit and runs the body on   *)
(* a miss; an exception of the body propagates and nothing is stored.      *)

\* a load that reads the file again when it has changed
LoadWcsCatalogReread(catalog, file) ==
    IF ~file.exists
    THEN [out |-> "FileNotFoundError", df |-> <<>>, catalog |-> catalog]
    ELSE [out |-> "value", df |-> file.rows,
          catalog |-> <<[key |-> NoArg, val |-> file.rows]>>]

\* load_wcs_catalog(): [out, df, catalog]
LoadWcsCatalog(catalog, file) ==
    IF LruHas(catalog, NoArg)
    THEN [out |-> "value", df |-> LruGet(catalog, NoArg),
          catalog |-> LruTouch(catalog, NoArg)]
    ELSE IF ~file.exists
    THEN [out |-> "FileNotFoundError", df |-> <<>>, catalog |-> catalog]
    ELSE [out |-> "value", df |-> file.rows,
          catalog |-> LruPut(catalog, NoArg, file.rows, DefaultMaxSize)]

\* a query that leaves the camera out
QueryBySectorAndCcd(df, key) ==
    SelectSeq(df, LAMBDA row : row.sector = key[1] /\ row.ccd = key[3])

\* df.query(f"sector == {sector} & camera == {camera} & ccd == {ccd}")
Query(df, key) ==
    SelectSeq(df, LAMBDA row : /\ row.sector = key[1]
                               /\ row.camera = key[2]
                               /\ row.ccd = key[3])

\* WCS(wcsstr): a new object, the n-th this process constructs
NewWcs(n, wcsstr) == [id |-> n, header |-> wcsstr]

\* get_wcs(sector, camera, ccd): [out, wcs, cache, catalog, made]
\* a table written without rows has no columns, and the query cannot name one
GetWcsCall(cache, catalog, file, made, key) ==
    IF LruHas(cache, key)
    THEN [out |-> "value", wcs |-> LruGet(cache, key),
          cache |-> LruTouch(cache, key), catalog |-> catalog, made |-> made]
    ELSE LET l == LoadWcsCatalog(catalog, file)
             none == NewWcs(0, <<>>)
         IN  IF l.out # "value"
             THEN [out |-> l.out, wcs |-> none, cache |-> cache,
                   catalog |-> l.catalog, made |-> made]
             ELSE IF Len(l.df) = 0
             THEN [out |-> "UndefinedVariableError", wcs |-> none, cache |-> cache,
                   catalog |-> l.catalog, made |-> made]
             ELSE IF Len(Query(l.df, key)) = 0
             THEN [out |-> "IndexError", wcs |-> none, cache |-> cache,
                   catalog |-> l.catalog, made |-> made]
             ELSE LET wcs == NewWcs(made + 1, Query(l.df, key)[1].wcs)
                  IN  [out |-> "value", wcs |-> wcs,
                       cache |-> LruPut(cache, key, wcs, WcsMaxSize),
                       catalog |-> l.catalog, made |-> made + 1]

\* the group keys in the order the table first shows them (sort=False)
GroupKeysAsFound(db) ==
    LET S == {db[i].sector : i \in 1..Len(db)}
        first(x) == CHOOSE i \in 1..Len(db) :
                        db[i].sector = x /\ \A j \in 1..(i - 1) : db[j].sector # x
    IN  [k \in 1..Cardinality(S) |->
            CHOOSE x \in S : Cardinality({y \in S : first(y) < first(x)}) = k - 1]

\* the group keys of db.groupby("sector"), which sorts them
SortAsc(S) ==
    [k \in 1..Cardinality(S) |->
        CHOOSE x \in S : Cardinality({y \in S : y < x}) = k - 1]

GroupKeys(db) == SortAsc({db[i].sector : i \in 1..Len(db)})

\* Series.min() and Series.max() of a column of str
StrMin(col) ==
    col[CHOOSE i \in 1..Len(col) : \A j \in 1..Len(col) : StrLe(col[i], col[j])]

StrMax(col) ==
    col[CHOOSE i \in 1..Len(col) : \A j \in 1..Len(col) : StrLe(col[j], col[i])]

Group(db, sector) == SelectSeq(db, LAMBDA row : row.sector = sector)

\* db.groupby("sector")["begin"].min() joined with ...["end"].max()
SectorDates(db) ==
    LET keys == GroupKeys(db)
    IN  [k \in 1..Len(keys) |->
            LET g == Group(db, keys[k])
                begins == [i \in 1..Len(g) |-> g[i].begin]
                ends == [i \in 1..Len(g) |-> g[i].end]
            IN  [Index |-> keys[k],
                 begin |-> StrMin(begins),
                 end |-> StrMax(ends)]]

\* get_sector_dates(): [out, dates, cache, catalog]
GetSectorDatesCall(cache, catalog, file) ==
    IF LruHas(cache, NoArg)
    THEN [out |-> "value", dates |-> LruGet(cache, NoArg),
          cache |-> LruTouch(cache, NoArg), catalog |-> catalog]
    ELSE LET l == LoadWcsCatalog(catalog, file)
         IN  IF l.out # "value"
             THEN [out |-> l.out, dates |-> <<>>, cache |-> cache,
                   catalog |-> l.catalog]
             ELSE IF Len(l.df) = 0
             THEN [out |-> "KeyError", dates |-> <<>>, cache |-> cache,
                   catalog |-> l.catalog]
             ELSE [out |-> "value", dates |-> SectorDates(l.df),
                   cache |-> LruPut(cache, NoArg, SectorDates(l.df), DefaultMaxSize),
                   catalog |-> l.catalog]

\* the str the comparisons of time_to_sector use: time.iso for a Time
Normalize(time) == IF time.kind = "Time" THEN TimeIso(time) ELSE time.chars

\* the for loop of time_to_sector over dates.itertuples(): the Index of the
\* first row the test accepts; 0 is None
Scan(dates, time) ==
    LET hits == {k \in 1..Len(dates) :
                    StrLe(dates[k].begin, time) /\ StrLe(time, dates[k].end)}
    IN  IF hits = {} THEN 0
        ELSE dates[CHOOSE k \in hits : \A j \in hits : k <= j].Index

\* time_to_sector(time): [out, sector, cache, dates, catalog]
TimeToSectorCall(cache, dates, catalog, file, time) ==
    IF LruHas(cache, time)
    THEN LET hit == LruGet(cache, time)
         IN  [out |-> IF hit = 0 THEN "None" ELSE "value", sector |-> hit,
              cache |-> LruTouch(cache, time), dates |-> dates, catalog |-> catalog]
    ELSE LET d == GetSectorDatesCall(dates, catalog, file)
             found == Scan(d.dates, Normalize(time))
         IN  IF d.out # "value"
             THEN [out |-> d.out, sector |-> 0, cache |-> cache,
                   dates |-> d.cache, catalog |-> d.catalog]
             ELSE [out |-> IF found = 0 THEN "None" ELSE "value", sector |-> found,
                   cache |-> LruPut(cache, time, found, DefaultMaxSize),
                   dates |-> d.cache, catalog |-> d.catalog]

\* a call of load_wcs_catalog()
Load ==
    LET r == LoadWcsCatalog(catalogCache, wcsFile)
    IN  /\ catalogCache' = r.catalog
        /\ ret' = [op |-> "load_wcs_catalog", arg |-> NoArg, out |-> r.out,
                   val |-> r.df]
        /\ UNCHANGED <<listingVars, wcsFile, wcsCache, datesCache, timeCache,
                       nextObj, handed>>

\* a call of get_wcs(sector, camera, ccd)
GetWcs(key) ==
    LET r == GetWcsCall(wcsCache, catalogCache, wcsFile, nextObj, key)
    IN  /\ wcsCache' = r.cache
        /\ catalogCache' = r.catalog
        /\ nextObj' = r.made
        /\ handed' = IF r.out = "value" THEN handed \cup {<<key, r.wcs>>} ELSE handed
        /\ ret' = [op |-> "get_wcs", arg |-> key, out |-> r.out, val |-> r.wcs]
        /\ UNCHANGED <<listingVars, wcsFile, datesCache, timeCache>>

\* a call of get_sector_dates()
GetSectorDates ==
    LET r == GetSectorDatesCall(datesCache, catalogCache, wcsFile)
    IN  /\ datesCache' = r.cache
        /\ catalogCache' = r.catalog
        /\ ret' = [op |-> "get_sector_dates", arg |-> NoArg, out |-> r.out,
                   val |-> r.dates]
        /\ UNCHANGED <<listingVars, wcsFile, wcsCache, timeCache, nextObj, handed>>

\* a call of time_to_sector(time)
TimeToSector(time) ==
    LET r == TimeToSectorCall(timeCache, datesCache, catalogCache, wcsFile, time)
    IN  /\ timeCache' = r.cache
        /\ datesCache' = r.dates
        /\ catalogCache' = r.catalog
        /\ ret' = [op |-> "time_to_sector", arg |-> time, out |-> r.out,
                   val |-> r.sector]
        /\ UNCHANGED <<listingVars, wcsFile, wcsCache, nextObj, handed>>

---------------------------------------------------------------------------
(* Inputs *)

PathArgs == {NoPath, UserPath, FfiCatalogPath(1)}

---------------------------------------------------------------------------
(* The build steps: the listing files and the WCS table *)

Init ==
    /\ files = [p \in Paths |-> NoFile]
    /\ mastCache = <<>>
    /\ wcsFile = [exists |-> FALSE, rows |-> <<>>]
    /\ catalogCache = <<>>
    /\ wcsCache = <<>>
    /\ datesCache = <<>>
    /\ timeCache = <<>>
    /\ nextObj = 0
    /\ handed = {}
    /\ ret = [op |-> "start", arg |-> NoArg, out |-> "None"]

FetchOne == \E s \in 1..SECTORS, p \in PathArgs, up \in BOOLEAN :
                FetchFfiCatalog(s, p, up)

FetchAll == \E ups \in [1..SECTORS -> BOOLEAN] :
                FetchAllCatalogs(ups)

Update == \E down \in DownSets :
              \/ \E sectors \in SectorLists : UpdateWcsCatalog(TRUE, sectors, down)
              \/ UpdateWcsCatalog(FALSE, <<>>, down)

NextBuild == FetchOne \/ FetchAll \/ Update \/ Restart

SpecBuild == Init /\ [][NextBuild]_vars

---------------------------------------------------------------------------
(* One process after another querying the table while builds replace it *)

StrArg(n) == [kind |-> "str", chars |-> IsoSeconds(n)]
TimeArg(n, ms) == [kind |-> "Time", sec |-> n, ms |-> ms]

\* a first and a last ccd of the table, and a camera no table has
QueryKeys == {<<1, 1, 1>>, <<SECTORS, 4, 4>>, <<1, 5, 1>>}

\* the last second of sector 1 and the second after it
QueryTimes == {StrArg(15), StrArg(16)}

Lookup == \E key \in QueryKeys : GetWcs(key)

Locate == \E time \in QueryTimes : TimeToSector(time)

NextQuery == Update \/ Load \/ Lookup \/ GetSectorDates \/ Locate \/ Restart

SpecQuery == Init /\ [][NextQuery]_vars

---------------------------------------------------------------------------
(* The index computations over any table a build may have left *)

DrawnTables ==
    UNION {[1..n -> {[sector |-> s, begin |-> IsoSeconds(be[1]),
                      end |-> IsoSeconds(be[2])] :
                        s \in 1..SECTORS,
                        be \in {x \in (0..MaxSecond) \X (0..MaxSecond) :
                                   x[1] <= x[2]}}] :
           n \in 0..MaxRows}

\* the k-th drawn row as a row of the table
AsRow(drawn, k) ==
    [sector |-> drawn.sector, camera |-> 1, ccd |-> k,
     begin |-> drawn.begin, end |-> drawn.end,
     wcs |-> <<drawn.sector, 1, k, 2>>]

InitIndex ==
    /\ files = [p \in Paths |-> NoFile]
    /\ mastCache = <<>>
    /\ \E t \in DrawnTables :
           wcsFile = [exists |-> TRUE, rows |-> [k \in 1..Len(t) |-> AsRow(t[k], k)]]
    /\ catalogCache = <<>>
    /\ wcsCache = <<>>
    /\ datesCache = <<>>
    /\ timeCache = <<>>
    /\ nextObj = 0
    /\ handed = {}
    /\ ret = [op |-> "start", arg |-> NoArg, out |-> "None"]

\* every second of the drawn range and the one after it, as the str of the
\* catalog and as a Time on the second and half a second later
IndexTimes ==
    {StrArg(n) : n \in 0..(MaxSecond + 1)} \cup
    {TimeArg(n, ms) : n \in 0..MaxSecond, ms \in {0, 500}}

\* the first lookup of a process
LocateFirst == \E time \in IndexTimes : timeCache = <<>> /\ TimeToSector(time)

NextIndex == GetSectorDates \/ LocateFirst

SpecIndex == InitIndex /\ [][NextIndex]_vars

---------------------------------------------------------------------------
(* The claims *)

Elems(seq) == {seq[i] : i \in 1..Len(seq)}
KeyOf(row) == <<row.sector, row.camera, row.ccd>>
KeysOf(rows) == {KeyOf(rows[i]) : i \in 1..Len(rows)}
CameraCcds == Elems(CAMERAS) \X Elems(CCDS)
AllKeys(S) == {<<s, c[1], c[2]>> : s \in S, c \in CameraCcds}
SecondsOf(str) == CHOOSE n \in 0..99 : IsoSeconds(n) = str
\* a lookup argument as an instant, in milliseconds
Instant(time) ==
    IF time.kind = "Time" THEN 1000 * time.sec + time.ms
    ELSE 1000 * SecondsOf(time.chars)
Built == ret.op = "update_wcs_catalog" /\ ret.out = "None"
Target(arg) == IF arg[2] = NoPath THEN FfiCatalogPath(arg[1]) ELSE arg[2]

\* C1: over any sector-date index, time_to_sector(t) returns the lowest
\* sector whose interval holds the instant t, begin <= t <= end with both
\* ends included, and returns None without raising when no interval does.
C1_FirstCoveringSector ==
    (ret.op = "time_to_sector" /\ LruHas(datesCache, NoArg)) =>
        LET dates == LruGet(datesCache, NoArg)
            t == Instant(ret.arg)
            covering == {dates[k].Index : k \in
                            {j \in 1..Len(dates) :
                                /\ 1000 * SecondsOf(dates[j].begin) <= t
                                /\ t <= 1000 * SecondsOf(dates[j].end)}}
        IN  IF covering = {}
            THEN ret.out = "None"
            ELSE /\ ret.out = "value"
                 /\ ret.val \in covering
                 /\ \A other \in covering : ret.val <= other

\* C2 as stated: get_wcs for a key without a row in the loaded table fails
\* with NotFoundError.
C2_NotFoundError ==
    (/\ ret.op = "get_wcs"
     /\ LruHas(catalogCache, NoArg)
     /\ ret.arg \notin KeysOf(LruGet(catalogCache, NoArg)))
        => ret.out = "NotFoundError"

\* C2 amended: get_wcs for a key without a row in the loaded table raises to
\* the caller, IndexError from the positional indexing of the empty selection
\* (UndefinedVariableError when the table has no rows at all); it returns no
\* object, caches nothing for the key, and an object it does return carries
\* the header of the row of its own key.
C2_LookupError ==
    (ret.op = "get_wcs" /\ LruHas(catalogCache, NoArg)) =>
        LET df == LruGet(catalogCache, NoArg)
        IN  IF ret.arg \notin KeysOf(df)
            THEN /\ ret.out = IF Len(df) = 0 THEN "UndefinedVariableError"
                              ELSE "IndexError"
                 /\ ~LruHas(wcsCache, ret.arg)
                 /\ \A p \in handed : p[1] # ret.arg
            ELSE /\ ret.out = "value"
                 /\ \E i \in 1..Len(df) :
                        KeyOf(df[i]) = ret.arg /\ df[i].wcs = ret.val.header

C2_Witness == ret.op = "get_wcs" /\ ret.out = "IndexError"

C5_EverySectorAttempted ==
    ret.op = "fetch_all_catalogs" => ret.attempted = 1..SECTORS

\* C6: a fetch whose file exists queries nothing, writes nothing, returns
\* None and leaves every file as it was, however often it is repeated; so
\* does every such fetch inside fetch_all_catalogs.
C6_SkipExisting ==
    [][/\ (ret'.op = "fetch_ffi_catalog" /\ files[Target(ret'.arg)] # NoFile) =>
              /\ ret'.out = "None"
              /\ ret'.queried = {} /\ ret'.wrote = {}
              /\ files' = files
       /\ ret'.op = "fetch_all_catalogs" =>
              \A s \in 1..SECTORS : files[FfiCatalogPath(s)] # NoFile =>
                  /\ s \notin ret'.queried
                  /\ FfiCatalogPath(s) \notin ret'.wrote
                  /\ files'[FfiCatalogPath(s)] = files[FfiCatalogPath(s)]]_vars

\* the default call met its sector's file
C6_Witness ==
    /\ ret.op = "fetch_ffi_catalog" /\ ret.out = "None"
    /\ ret.arg[2] = NoPath /\ files[FfiCatalogPath(ret.arg[1])] # NoFile

\* C7: an upstream failure reaches the caller as it is and nothing is
\* persisted: a fetch whose archive query fails creates no file, and an
\* update in which a listing or download fails leaves the table as it was.
C7_FailureWritesNothing ==
    [][/\ ret'.op = "fetch_ffi_catalog" =>
              /\ (ret'.queried # {} /\ mastCache' = mastCache) =>
                     ret'.out = "UpstreamError"
              /\ ret'.out = "UpstreamError" => files' = files
       /\ ret'.op = "update_wcs_catalog" =>
              /\ (\E t \in ret'.down : t[1] \in Elems(ret'.arg)) =>
                     ret'.out = "UpstreamError"
              /\ ret'.out = "UpstreamError" => wcsFile' = wcsFile]_vars

\* an update failed after rows were assembled, over an existing table
C7_Witness ==
    /\ ret.op = "update_wcs_catalog" /\ ret.out = "UpstreamError"
    /\ Len(ret.val) > 0 /\ wcsFile.exists

\* C8 as stated: whatever the order of the supplied sectors, the rows are
\* written in ascending order of sector, then camera, then ccd.
C8_AscendingRows ==
    Built =>
        \A k \in 1..(Len(wcsFile.rows) - 1) :
            LET a == wcsFile.rows[k]
                b == wcsFile.rows[k + 1]
            IN  \/ a.sector < b.sector
                \/ a.sector = b.sector /\ a.camera < b.camera
                \/ a.sector = b.sector /\ a.camera = b.camera /\ a.ccd < b.ccd

\* C8 amended: the rows are written sector by sector in the order the
\* sectors were supplied, 16 rows each, and within a sector in ascending
\* order of camera, then ccd.
C8_SuppliedOrder ==
    Built =>
        LET rows == wcsFile.rows
        IN  /\ \A k \in 1..Len(rows) : rows[k].sector = ret.arg[((k - 1) \div 16) + 1]
            /\ \A k \in 1..(Len(rows) - 1) :
                   ((k - 1) \div 16 = k \div 16) =>
                       \/ rows[k].camera < rows[k + 1].camera
                       \/ /\ rows[k].camera = rows[k + 1].camera
                          /\ rows[k].ccd < rows[k + 1].ccd

C8_Witness == Built /\ ret.arg = <<SECTORS, 1>> /\ wcsFile.rows[1].sector = SECTORS

\* C9: get_sector_dates returns one row per sector of the loaded table, in
\* ascending order of sector, with the earliest begin and the latest end of
\* the sector's rows.
C9_SectorDates ==
    (ret.op = "get_sector_dates" /\ ret.out = "value") =>
        LET db == LruGet(catalogCache, NoArg)
            idx == ret.val
            of(s) == {i \in 1..Len(db) : db[i].sector = s}
        IN  /\ {idx[k].Index : k \in 1..Len(idx)} = {db[i].sector : i \in 1..Len(db)}
            /\ \A k \in 1..(Len(idx) - 1) : idx[k].Index < idx[k + 1].Index
            /\ \A k \in 1..Len(idx) :
                   /\ \E i \in of(idx[k].Index) : db[i].begin = idx[k].begin
                   /\ \E i \in of(idx[k].Index) : db[i].end = idx[k].end
                   /\ \A i \in of(idx[k].Index) :
                          /\ SecondsOf(idx[k].begin) <= SecondsOf(db[i].begin)
                          /\ SecondsOf(db[i].end) <= SecondsOf(idx[k].end)

\* the table lists a later sector first, and the index has both
C9_Witness ==
    /\ ret.op = "get_sector_dates" /\ ret.out = "value"
    /\ Len(ret.val) = 2
    /\ wcsFile.rows[1].sector > wcsFile.rows[2].sector

\* C10: once a process has loaded the table, its later load_wcs_catalog,
\* get_sector_dates, get_wcs and time_to_sector calls answer from that table
\* whatever update_wcs_catalog writes meanwhile; a process that has not
\* loaded yet reads the table as it is now.
C10_FirstLoadedTable ==
    [][/\ (LruHas(catalogCache, NoArg) /\ ret'.op # "start") =>
              LET first == LruGet(catalogCache, NoArg)
              IN  /\ LruHas(catalogCache', NoArg)
                  /\ LruGet(catalogCache', NoArg) = first
                  /\ ret'.op = "load_wcs_catalog" =>
                         ret'.out = "value" /\ ret'.val = first
                  /\ (ret'.op = "get_sector_dates" /\ ret'.out = "value") =>
                         ret'.val = SectorDates(first)
                  /\ ret'.op = "get_wcs" =>
                         IF ret'.arg \in KeysOf(first)
                         THEN /\ ret'.out = "value"
                              /\ \E i \in 1..Len(first) :
                                     /\ KeyOf(first[i]) = ret'.arg
                                     /\ first[i].wcs = ret'.val.header
                         ELSE ret'.out # "value"
                  /\ (ret'.op = "time_to_sector" /\ ret'.out \in {"value", "None"}) =>
                         ret'.val = Scan(SectorDates(first), Normalize(ret'.arg))
       /\ (~LruHas(catalogCache, NoArg) /\ ret'.op = "load_wcs_catalog"
              /\ wcsFile.exists) =>
              ret'.val = wcsFile.rows]_vars

\* get_wcs answered for a key the table on disk no longer has
C10_Witness ==
    /\ ret.op = "get_wcs" /\ ret.out = "value"
    /\ wcsFile.exists /\ ret.arg \notin KeysOf(wcsFile.rows)

====
